---- MODULE Spec2Model ----
(***************************************************************************)
(* State-machine model of the event detectors of radem.events:            *)
(*   detect_onset         (src/radem/events/onset.py)                      *)
(*   find_events          (src/src/radem/events/background.py)             *)
(*   intervals_from_mask  (src/src/radem/events/background.py)             *)
(*   noise_mask           (src/src/radem/events/background.py)             *)
(*   the background-relative anomaly detector (specification, 4.3)         *)
(* One specification per function: SpecOnset, SpecEvents, SpecIntervals,   *)
(* SpecNoise, SpecSplit.                                                   *)
(* Each function is one call whose loop iterations are the steps.  Sample  *)
(* values are integers or NaN; positions are 0-based as in the source, so  *)
(* the sample at position p of a sequence s is s[p + 1].  Index labels of  *)
(* a series are its positions (timestamps are strictly increasing, so a    *)
(* position names its timestamp).                                          *)
(***************************************************************************)
EXTENDS Integers, Sequences, FiniteSets, TLC

VARIABLES
    fn,              \* the function being called
    pc,              \* where the call is: "start", a loop label, "done", "error"
    series,          \* the input samples (series / df["value"])
    window,          \* window / rolling_window
    critical_value,  \* critical_value
    i,               \* loop index of the running scan
    result,          \* the value returned: None, or Some(v)
    error,           \* the exception raised, "" while there is none
    mean,            \* detect_onset: background mean
    sigma,           \* detect_onset: background standard deviation
    k,               \* detect_onset: control parameter, a rational [num, den]
    hastiness,       \* detect_onset: alert threshold on the CUSUM value
    alert,           \* detect_onset: consecutive exceedances
    previous_cusum,  \* detect_onset: numerator over sigma
    cusum,           \* detect_onset: numerator over sigma
    normalized_flux, \* detect_onset: numerator over sigma, None before the scan
    mask,            \* intervals_from_mask, noise_mask: the boolean mask
    time,            \* the timestamps the caller holds / df["time"]
    starts,          \* intervals_from_mask: run starts
    ends,            \* intervals_from_mask: run ends (exclusive)
    is_event,        \* find_events: the boolean event condition
    events,          \* find_events: the (start, end) pairs found so far
    in_event,        \* find_events: inside a run
    event_start,     \* find_events: index label of the open run's first sample
    offsets,         \* noise_mask: the offsets to test
    full_interval,   \* noise_mask: None or Some(<<start, end>>)
    rolling_mean,    \* noise_mask: centred rolling mean per position
    rolling_std,     \* noise_mask: centred rolling standard deviation per position
    df,              \* noise_mask: the rows processed, [value, time]
    model,           \* anomaly detector: "gaussian" or "poisson"
    background,      \* anomaly detector: the background statistics
    threshold        \* anomaly detector: the z-score threshold

callVars == << fn, pc, series, window, critical_value, i, result, error >>
onsetVars == << mean, sigma, k, hastiness, alert, previous_cusum, cusum, normalized_flux >>
maskVars == << mask, time, starts, ends >>

eventVars == << is_event, events, in_event, event_start >>
noiseVars == << offsets, full_interval, rolling_mean, rolling_std, df >>
splitVars == << model, background, threshold >>

vars == << callVars, onsetVars, maskVars, eventVars, noiseVars, splitVars >>

otherThanOnset == << maskVars, eventVars, noiseVars, splitVars >>
otherThanIntervals == << onsetVars, eventVars, noiseVars, splitVars >>
otherThanEvents == << onsetVars, maskVars, noiseVars, splitVars >>
otherThanNoise == << onsetVars, starts, ends, eventVars, splitVars >>
otherThanSplit == << onsetVars, time, starts, ends, eventVars, noiseVars >>

\* Python's None and a present value, as sequences of length 0 and 1.
None == << >>
Some(v) == << v >>
Value(o) == o[1]
\* A missing sample (NaN): a value outside the range of every sample, sum and
\* product of the model.  Derived quantities carry a nan flag instead.
NaN == -1000000

\* ---------------------------------------------------------------- bounds
MaxLen == 4
Values == {0, 5, 8, 20}

RECURSIVE SeqsUpTo(_, _)
SeqsUpTo(S, n) ==
    IF n = 0 THEN { << >> }
    ELSE LET shorter == SeqsUpTo(S, n - 1)
         IN  shorter \cup { Append(s, v) : s \in { t \in shorter : Len(t) = n - 1 }, v \in S }

Constant(v, n) == [ j \in 1..n |-> v ]

\* ------------------------------------------------------------ arithmetic
Abs(x) == IF x < 0 THEN -x ELSE x
Max(a, b) == IF a >= b THEN a ELSE b
Min(a, b) == IF a <= b THEN a ELSE b

\* Fixed-point natural logarithm: LnFixed(n) = ln(n) * LogScale for an integer
\* n >= 1, by n = 2^e * f, ln f = 2 atanh((f-1)/(f+1)).
LogScale == 10000
Ln2Fixed == 6931

RECURSIVE Log2Floor(_)
Log2Floor(n) == IF n < 2 THEN 0 ELSE 1 + Log2Floor(n \div 2)

RECURSIVE Pow2(_)
Pow2(e) == IF e = 0 THEN 1 ELSE 2 * Pow2(e - 1)

LnFixed(n) ==
    LET e  == Log2Floor(n)
        p  == Pow2(e)
        z  == ((n - p) * LogScale) \div (n + p)
        z2 == (z * z) \div LogScale
        z3 == (z * z2) \div LogScale
        z5 == (z3 * z2) \div LogScale
        z7 == (z5 * z2) \div LogScale
        z9 == (z7 * z2) \div LogScale
    IN  e * Ln2Fixed + 2 * (z + z3 \div 3 + z5 \div 5 + z7 \div 7 + z9 \div 9)

\* np.log1p(x) for an integer x: -inf at x = -1, nan below, else ln(1 + x).
Log1p(x) ==
    IF x < -1 THEN [kind |-> "nan", v |-> 0]
    ELSE IF x = -1 THEN [kind |-> "-inf", v |-> 0]
    ELSE [kind |-> "num", v |-> LnFixed(1 + x)]

\* Python's round() of the rational num/den with den > 0: half to even.
Round(num, den) ==
    LET q == num \div den
        r == num % den
    IN  IF 2 * r < den THEN q
        ELSE IF 2 * r > den THEN q + 1
        ELSE IF q % 2 = 0 THEN q ELSE q + 1

\* ---------------------------------------------------------- detect_onset
UncertaintyLimit(m, cv, s) == m + cv * s

DegenerateSigmaOnly(m, cv, s) == s = 0

Degenerate(m, cv, s) == m = UncertaintyLimit(m, cv, s)

\* k = (uncertainty_limit - mean) / (log1p(uncertainty_limit) - log1p(mean)),
\* as the rational num/den; den = 0 stands for nan.
ControlParameter(m, ul) ==
    LET lu == Log1p(ul)
        lm == Log1p(m)
    IN  IF lu.kind = "nan" \/ lm.kind = "nan" \/ (lu.kind = "-inf" /\ lm.kind = "-inf")
        THEN [num |-> 0, den |-> 0]
        ELSE IF lu.kind = "-inf" \/ lm.kind = "-inf"
        THEN [num |-> 0, den |-> 1]
        ELSE IF lu.v = lm.v
        THEN [num |-> 0, den |-> 0]
        ELSE IF lu.v > lm.v
        THEN [num |-> (ul - m) * LogScale, den |-> lu.v - lm.v]
        ELSE [num |-> (m - ul) * LogScale, den |-> lm.v - lu.v]

IsNaN(q) == q.den = 0

Hastiness(q) == IF ~IsNaN(q) /\ q.num < q.den THEN 1 ELSE 2

RoundK(q) == Round(q.num, q.den)

\* The value added to normalized_flux - round(k) in the recurrence of line 49:
\* the right-hand side is evaluated before the tuple is assigned, so it reads
\* previous_cusum as the preceding iteration left it.
Carry(prev, cur) == prev

NextCusumNoClamp(nf, rk, carry) == nf - rk + carry

NextCusum(nf, rk, carry) == Max(0, nf - rk + carry)

NextAlertNoReset(a, c, h) == IF c > h THEN a + 1 ELSE a

NextAlert(a, c, h) == IF c > h THEN a + 1 ELSE 0

OnsetIndexAtDetection(idx, a) == idx

ScanFromZero == 1 - 1

\* Line 46: range(1, len(series)) starts the scan at position 1.
ScanStart == 1

OnsetIndex(idx, a) == idx - a

Means == {-1, 0, 5}
Sigmas == {0, 1, 2}
CriticalValues == {0, 2}
Windows == {0, 1, 2, 5}

Background == Constant(5, 70)
Transition == Constant(5, 50) \o Constant(20, 20)

OnsetSeries == SeqsUpTo(Values, MaxLen) \cup {Background, Transition}

\* The variables a call does not use stay at these values.
IdleOnset ==
    /\ mean = 0 /\ sigma = 0 /\ k = [num |-> 0, den |-> 0] /\ hastiness = 0
    /\ alert = 0 /\ previous_cusum = 0 /\ cusum = 0 /\ normalized_flux = None

IdleMask ==
    /\ mask = << >> /\ time = << >> /\ starts = << >> /\ ends = << >>

IdleEvents ==
    /\ is_event = << >> /\ events = << >> /\ in_event = FALSE /\ event_start = None

IdleNoise ==
    /\ offsets = << >> /\ full_interval = None
    /\ rolling_mean = << >> /\ rolling_std = << >>
    /\ df = [value |-> << >>, time |-> << >>]

IdleSplit ==
    /\ model = "" /\ background = [mean |-> 0, std |-> 0] /\ threshold = 0

InitOnset ==
    /\ fn = "detect_onset"
    /\ pc = "start"
    /\ series \in OnsetSeries
    /\ mean \in Means
    /\ sigma \in Sigmas
    /\ window \in Windows
    /\ critical_value \in CriticalValues
    /\ k = [num |-> 0, den |-> 0]
    /\ hastiness = 0
    /\ alert = 0
    /\ previous_cusum = 0
    /\ cusum = 0
    /\ normalized_flux = None
    /\ i = 0
    /\ result = None
    /\ error = ""
    /\ IdleMask /\ IdleEvents /\ IdleNoise /\ IdleSplit

\* Lines 30-44: the degenerate-parameter check, k, hastiness, the scan state.
OnsetSetup ==
    /\ fn = "detect_onset"
    /\ pc = "start"
    /\ IF Degenerate(mean, critical_value, sigma)
       THEN /\ pc' = "error"
            /\ error' = "ValueError"
            /\ UNCHANGED << k, hastiness, i >>
       ELSE /\ k' = ControlParameter(mean, UncertaintyLimit(mean, critical_value, sigma))
            /\ hastiness' = Hastiness(k')
            /\ i' = ScanStart
            /\ pc' = "scan"
            /\ UNCHANGED error
    /\ UNCHANGED << fn, series, mean, sigma, window, critical_value, alert,
                    previous_cusum, cusum, normalized_flux, result, otherThanOnset >>

\* Lines 46-56: one iteration of the scan, at position i.
OnsetStep ==
    /\ fn = "detect_onset"
    /\ pc = "scan"
    /\ i < Len(series)
    /\ normalized_flux' = Some(series[i + 1] - mean)
    /\ IF IsNaN(k)
       THEN /\ pc' = "error"
            /\ error' = "ValueError"
            /\ UNCHANGED << previous_cusum, cusum, alert, i, result >>
       ELSE /\ previous_cusum' = cusum
            /\ cusum' = NextCusum(Value(normalized_flux'), RoundK(k) * sigma,
                                  Carry(previous_cusum, cusum))
            /\ alert' = NextAlert(alert, cusum', hastiness * sigma)
            /\ error' = error
            /\ IF alert' = window
               THEN /\ result' = Some(OnsetIndex(i, alert'))
                    /\ pc' = "done"
                    /\ UNCHANGED i
               ELSE /\ i' = i + 1
                    /\ UNCHANGED << pc, result >>
    /\ UNCHANGED << fn, series, mean, sigma, window, critical_value, k, hastiness,
                    otherThanOnset >>

\* Line 58: the scan ran off the end of the series; onset_time is still None.
OnsetReturn ==
    /\ fn = "detect_onset"
    /\ pc = "scan"
    /\ i >= Len(series)
    /\ pc' = "done"
    /\ UNCHANGED << fn, series, window, critical_value, i, result, error,
                    onsetVars, otherThanOnset >>

NextOnset == OnsetSetup \/ OnsetStep \/ OnsetReturn

SpecOnset == InitOnset /\ [][NextOnset]_vars

\* --------------------------------------------------- detect_onset: claims
ScenarioParameters ==
    /\ fn = "detect_onset"
    /\ mean = 5 /\ sigma = 1 /\ critical_value = 2 /\ window = 5

\* C1 (as stated): with mean=5, sigma=1, critical_value=2, window=5 the series
\* of 50 samples at 5 followed by 20 samples at 20 yields an onset at position
\* 54 or later, and the series of 70 samples at 5 yields none.
C1_OnsetAtOrAfterFifthPoint ==
    (ScenarioParameters /\ pc = "done") =>
        /\ series = Transition => (result # None /\ Value(result) >= 54)
        /\ series = Background => result = None

\* C1 (amended): in that scenario the call never fails; on the series with the
\* transition the counter reaches the window at scan position 54 and the onset
\* returned is the position `window` samples earlier, 49; on the all-background
\* series the result is none.
C1_OnsetBackdatedByWindow ==
    (ScenarioParameters /\ series \in {Transition, Background}) =>
        /\ pc # "error"
        /\ (pc = "done" /\ series = Transition) => (i = 54 /\ result = Some(49))
        /\ (pc = "done" /\ series = Background) => result = None

C1_Witness ==
    ScenarioParameters /\ series = Transition /\ pc = "done" /\ result = Some(49)

\* C2: whenever mean + critical_value * sigma equals mean, the call ends in
\* ValueError with no sample scanned and no division by sigma performed; it
\* never reaches the scan and never returns.
C2_DegenerateAlwaysFails ==
    (fn = "detect_onset" /\ mean + critical_value * sigma = mean /\ pc # "start") =>
        /\ pc = "error"
        /\ error = "ValueError"
        /\ result = None
        /\ i = 0
        /\ normalized_flux = None

C2_Witness ==
    /\ fn = "detect_onset" /\ pc = "error"
    /\ sigma > 0 /\ critical_value = 0 /\ Len(series) >= 2

\* Every sample's normalized value (value - mean) / sigma is below round(k);
\* both sides are multiplied by sigma > 0.
AllBelowRoundK ==
    \A j \in 1..Len(series) : series[j] - mean < RoundK(k) * sigma

\* C3: on a series whose normalized values are all below round(k), the CUSUM
\* value is 0 after every scan step, the alert counter stays 0, and for
\* window >= 1 the call returns none.
C3_CusumStaysZero ==
    (fn = "detect_onset" /\ pc \in {"scan", "done"} /\ AllBelowRoundK) =>
        /\ cusum = 0
        /\ previous_cusum = 0
        /\ alert = 0
        /\ (pc = "done" /\ window >= 1) => result = None

C3_Witness ==
    /\ fn = "detect_onset" /\ pc = "done" /\ AllBelowRoundK
    /\ window >= 1 /\ i = Len(series) /\ Len(series) >= 3
    /\ \E j \in 2..Len(series) : series[j] - mean > 0

\* C10: after every scan step the CUSUM value equals
\* max(0, normalized - round(k) + c) with c the CUSUM value the immediately
\* preceding step produced (held in previous_cusum once the step is done).
C10_RecurrenceUsesPreviousStep ==
    (fn = "detect_onset" /\ pc \in {"scan", "done"} /\ normalized_flux # None) =>
        cusum = Max(0, Value(normalized_flux) - RoundK(k) * sigma + previous_cusum)

\* The CUSUM values the scan of lines 46-49 produces at the positions
\* ScanStart .. p of s, in scan order (numerators over sg).
RECURSIVE CusumTrace(_, _, _, _, _)
CusumTrace(s, m, sg, rk, p) ==
    IF p < ScanStart THEN << >>
    ELSE LET before == CusumTrace(s, m, sg, rk, p - 1)
             n == Len(before)
             cur == IF n >= 1 THEN before[n] ELSE 0
             prev == IF n >= 2 THEN before[n - 1] ELSE 0
         IN  Append(before, NextCusum(s[p + 1] - m, rk * sg, Carry(prev, cur)))

\* The scan's CUSUM value at position q exceeded hastiness.
ExceededAt(tr, q) == tr[q - ScanStart + 1] > hastiness * sigma

\* At position q the CUSUM value exceeded hastiness at each of the last
\* `window` scan steps.
ConfirmedAt(tr, q) ==
    /\ q - window + 1 >= ScanStart
    /\ \A r \in (q - window + 1)..q : ExceededAt(tr, r)

\* C11: for window >= 1 the call returns the position i - window for the
\* smallest scan position i at which the CUSUM value exceeded hastiness at each
\* of the last `window` scan steps, and stops there; while no such position
\* has been scanned it goes on, and when there is none it returns none.
C11_FirstConfirmedPosition ==
    (fn = "detect_onset" /\ window >= 1 /\ pc \in {"scan", "done"}) =>
        LET tr == CusumTrace(series, mean, sigma, RoundK(k), Len(series) - 1) IN
        /\ (pc = "done" /\ result # None) =>
              /\ ConfirmedAt(tr, i)
              /\ \A q \in ScanStart..(i - 1) : ~ConfirmedAt(tr, q)
              /\ Value(result) = i - window
        /\ (pc = "done" /\ result = None) =>
              \A q \in ScanStart..(Len(series) - 1) : ~ConfirmedAt(tr, q)
        /\ pc = "scan" =>
              (result = None /\ \A q \in ScanStart..(i - 1) : ~ConfirmedAt(tr, q))

C11_Witness ==
    /\ fn = "detect_onset" /\ pc = "done" /\ window = 2
    /\ result = Some(1) /\ i = 3 /\ Len(series) >= 4
    /\ cusum > hastiness * sigma

\* The last position the scan has processed.
LastScanned == IF pc = "done" /\ result # None THEN i ELSE i - 1

\* C18: the scan never indexes before the start of the series.  The alert
\* counter stays within 0..min(i, window) for a positive window, a returned
\* position p = i - window satisfies 0 <= p <= len(series) - 1 - window, a
\* series no longer than the window gives none, and the scan state is the
\* same whatever the value of sample 0.
C18_NeverBeforeStart ==
    (fn = "detect_onset" /\ window >= 1 /\ pc \in {"scan", "done"}) =>
        /\ 0 <= alert /\ alert <= Min(LastScanned, window)
        /\ result # None =>
              /\ pc = "done"
              /\ Value(result) = i - window
              /\ 0 <= Value(result)
              /\ Value(result) <= Len(series) - 1 - window
        /\ (pc = "done" /\ Len(series) <= window) => result = None
        /\ Len(series) >= 1 =>
              \A v \in Values :
                  LET tr == CusumTrace([series EXCEPT ![1] = v], mean, sigma,
                                       RoundK(k), LastScanned)
                  IN  /\ Len(tr) = LastScanned
                      /\ cusum = IF Len(tr) >= 1 THEN tr[Len(tr)] ELSE 0

C18_Witness ==
    /\ fn = "detect_onset" /\ pc = "done" /\ window >= 1
    /\ result = Some(0) /\ alert = window /\ i = window
    /\ Len(series) = window + 1
    /\ series[1] = 0 /\ series[2] = 20

\* --------------------------------------------------- intervals_from_mask
MaxMaskLen == 5
MaxTimeLen == 6

\* mask.astype(int)
AsInt(m) == [ j \in 1..Len(m) |-> IF m[j] THEN 1 ELSE 0 ]

\* np.diff(a): a[j + 1] - a[j] for the Len(a) - 1 adjacent pairs.
Diff(a) == [ j \in 1..(Len(a) - 1) |-> a[j + 1] - a[j] ]

\* np.where(a == v)[0]: the 0-based positions holding v, ascending.
RECURSIVE WhereUpTo(_, _, _)
WhereUpTo(a, v, n) ==
    IF n = 0 THEN << >>
    ELSE IF a[n] = v THEN Append(WhereUpTo(a, v, n - 1), n - 1)
    ELSE WhereUpTo(a, v, n - 1)

Where(a, v) == WhereUpTo(a, v, Len(a))

PlusOne(s) == [ j \in 1..Len(s) |-> s[j] + 1 ]

\* Lines 58-64.
Changes(m) == Diff(AsInt(m))

StartsNoShift(m) == Where(Changes(m), 1)

Starts(m) == PlusOne(Where(Changes(m), 1))

EndsNoShift(m) == Where(Changes(m), -1)

Ends(m) == PlusOne(Where(Changes(m), -1))

InsertFirstSkipped(s) == s

\* Line 68: np.insert(starts, 0, 0).
InsertFirst(s) == << 0 >> \o s

AppendLastInside(e, m) == Append(e, Len(m) - 1)

\* Line 70: np.append(ends, len(mask)).
AppendLast(e, m) == Append(e, Len(m))

\* Line 72: list(zip(starts, ends)) stops at the shorter of the two.
Zip(a, b) == [ j \in 1..Min(Len(a), Len(b)) |-> << a[j], b[j] >> ]

Masks == SeqsUpTo(BOOLEAN, MaxMaskLen)

InitIntervals ==
    /\ fn = "intervals_from_mask"
    /\ pc = "start"
    /\ mask \in Masks
    /\ time \in { [ j \in 1..n |-> j - 1 ] : n \in 0..MaxTimeLen }
    /\ starts = << >>
    /\ ends = << >>
    /\ series = << >> /\ window = 0 /\ critical_value = 0
    /\ i = 0
    /\ result = None
    /\ error = ""
    /\ IdleOnset /\ IdleEvents /\ IdleNoise /\ IdleSplit

\* Lines 58-64: the change points, the run starts and the run ends.
IntervalsChanges ==
    /\ fn = "intervals_from_mask"
    /\ pc = "start"
    /\ starts' = Starts(mask)
    /\ ends' = Ends(mask)
    /\ pc' = "edges"
    /\ UNCHANGED << fn, series, window, critical_value, i, result, error,
                    mask, time, otherThanIntervals >>

\* Lines 67-70: a mask that starts or ends with True; mask[0] of an empty mask
\* is an IndexError.
IntervalsEdges ==
    /\ fn = "intervals_from_mask"
    /\ pc = "edges"
    /\ IF Len(mask) = 0
       THEN /\ pc' = "error"
            /\ error' = "IndexError"
            /\ UNCHANGED << starts, ends >>
       ELSE /\ starts' = IF mask[1] THEN InsertFirst(starts) ELSE starts
            /\ ends' = IF mask[Len(mask)] THEN AppendLast(ends, mask) ELSE ends
            /\ pc' = "zip"
            /\ UNCHANGED error
    /\ UNCHANGED << fn, series, window, critical_value, i, result,
                    mask, time, otherThanIntervals >>

\* Lines 72-73.
IntervalsReturn ==
    /\ fn = "intervals_from_mask"
    /\ pc = "zip"
    /\ result' = Some(Zip(starts, ends))
    /\ pc' = "done"
    /\ UNCHANGED << fn, series, window, critical_value, i, error,
                    mask, time, starts, ends, otherThanIntervals >>

NextIntervals == IntervalsChanges \/ IntervalsEdges \/ IntervalsReturn

SpecIntervals == InitIntervals /\ [][NextIntervals]_vars

\* The whole function on a mask of length >= 1, as one expression.
IntervalsFromMask(m) ==
    Zip(IF m[1] THEN InsertFirst(Starts(m)) ELSE Starts(m),
        IF m[Len(m)] THEN AppendLast(Ends(m), m) ELSE Ends(m))

\* -------------------------------------------- intervals_from_mask: claims
\* The positions a list of (start, end) pairs covers, end exclusive as the
\* function returns it.
Covered(iv) == UNION { { p \in 0..MaxMaskLen + 1 : iv[j][1] <= p /\ p < iv[j][2] } : j \in 1..Len(iv) }

TruePositions(m) == { p \in 0..(Len(m) - 1) : m[p + 1] }

MaskFromIntervals(iv, n) == [ j \in 1..n |-> (j - 1) \in Covered(iv) ]

\* C4: for a mask of length n >= 1 the returned pairs, read as the ranges
\* [start, end) the function produces, cover exactly the true positions, are
\* sorted by start, leave at least one position between one pair's range and
\* the next (no overlap, no touching), and extracting again from the mask
\* rebuilt from them gives the same list.
C4_IntervalsCoverExactly ==
    (fn = "intervals_from_mask" /\ pc = "done") =>
        LET iv == Value(result) IN
        /\ Covered(iv) = TruePositions(mask)
        /\ \A j \in 1..Len(iv) : iv[j][1] < iv[j][2]
        /\ \A j \in 1..(Len(iv) - 1) : iv[j][1] < iv[j + 1][1] /\ iv[j][2] < iv[j + 1][1]
        /\ IntervalsFromMask(MaskFromIntervals(iv, Len(mask))) = iv

C4_Witness ==
    /\ fn = "intervals_from_mask" /\ pc = "done"
    /\ Len(Value(result)) = 2
    /\ mask[1] /\ mask[Len(mask)]
    /\ \E p \in 2..(Len(mask) - 1) : ~mask[p] /\ mask[p + 1] /\ p + 1 < Len(mask)

\* C5 (as stated): whenever the mask and the timestamp sequence differ in
\* length the extractor fails with ShapeMismatch and returns no list (stated
\* here for the masks of length >= 1, which the function handles).
C5_ShapeMismatchRaised ==
    (fn = "intervals_from_mask" /\ Len(mask) >= 1 /\ Len(mask) # Len(time)
        /\ pc \in {"done", "error"}) =>
        (pc = "error" /\ error = "ShapeMismatch" /\ result = None)

\* C5 (amended): the extractor reads the mask alone; for every mask of length
\* n >= 1, whatever the length of the timestamp sequence, the call raises
\* nothing and returns pairs of positions with 0 <= start < end <= n.
C5_MaskAloneDecides ==
    (fn = "intervals_from_mask" /\ Len(mask) >= 1) =>
        /\ pc # "error" /\ error = ""
        /\ pc = "done" =>
              \A j \in 1..Len(Value(result)) :
                  /\ 0 <= Value(result)[j][1]
                  /\ Value(result)[j][1] < Value(result)[j][2]
                  /\ Value(result)[j][2] <= Len(mask)

C5_Witness ==
    /\ fn = "intervals_from_mask" /\ pc = "done"
    /\ Len(mask) > Len(time) /\ Len(time) >= 1
    /\ Len(Value(result)) >= 1
    /\ Value(result)[Len(Value(result))][2] = Len(mask)

\* C12 (as stated): every returned pair's end is the position of the last
\* true sample of its run, never a position outside the series.
C12_EndIsLastTruePosition ==
    (fn = "intervals_from_mask" /\ pc = "done") =>
        \A j \in 1..Len(Value(result)) :
            LET e == Value(result)[j][2] IN
            /\ e <= Len(mask) - 1
            /\ mask[e + 1]
            /\ (e = Len(mask) - 1 \/ ~mask[e + 2])

\* C12 (amended): every returned pair's end is one past the last true sample
\* of its run: the position of the first false after the run, and len(mask),
\* a position outside the series, when the mask is true at the final index.
C12_EndIsOnePastLastTrue ==
    (fn = "intervals_from_mask" /\ pc = "done") =>
        \A j \in 1..Len(Value(result)) :
            LET b == Value(result)[j][1]
                e == Value(result)[j][2]
            IN  /\ 1 <= e /\ e <= Len(mask)
                /\ \A p \in b..(e - 1) : mask[p + 1]
                /\ IF mask[Len(mask)] /\ j = Len(Value(result))
                   THEN e = Len(mask)
                   ELSE e <= Len(mask) - 1 /\ ~mask[e + 1]

C12_Witness ==
    /\ fn = "intervals_from_mask" /\ pc = "done"
    /\ Len(Value(result)) = 2
    /\ Value(result)[1][2] = 2 /\ ~mask[3]
    /\ Value(result)[2][2] = Len(mask)

\* The positions at which a run of true samples begins.
RunStarts(m) == { p \in 0..(Len(m) - 1) : m[p + 1] /\ (p = 0 \/ ~m[p]) }

\* C21: for a mask of length n >= 1, once the edges are handled there are as
\* many run starts as run ends, start_j < end_j <= start_(j+1) - 1 holds, and
\* pairing them by position returns one pair per run of the mask, none
\* dropped and none mis-paired; an empty mask fails on reading mask[0] with
\* an IndexError and returns nothing.
C21_StartsPairWithEnds ==
    fn = "intervals_from_mask" =>
        /\ pc \in {"zip", "done"} =>
              /\ Len(mask) >= 1
              /\ Len(starts) = Len(ends)
              /\ Len(starts) = Cardinality(RunStarts(mask))
              /\ \A j \in 1..Len(starts) :
                    /\ starts[j] \in RunStarts(mask)
                    /\ starts[j] < ends[j]
                    /\ j < Len(starts) => ends[j] <= starts[j + 1] - 1
        /\ pc = "done" =>
              /\ Len(Value(result)) = Len(starts)
              /\ \A j \in 1..Len(starts) : Value(result)[j] = << starts[j], ends[j] >>
        /\ pc = "error" <=> (Len(mask) = 0 /\ error = "IndexError")
        /\ Len(mask) = 0 => (pc \in {"start", "edges", "error"} /\ result = None)

C21_Witness ==
    /\ fn = "intervals_from_mask" /\ pc = "done"
    /\ mask = << TRUE, FALSE, TRUE, FALSE, TRUE >>
    /\ starts = << 0, 2, 4 >>
    /\ ends = << 1, 3, 5 >>
    /\ Len(Value(result)) = 3

\* ----------------------------------------------------------- find_events
\* Sum of f over the 0-based positions lo..hi of s.
RECURSIVE SumRange(_, _, _)
SumRange(s, lo, hi) == IF lo > hi THEN 0 ELSE s[hi + 1] + SumRange(s, lo, hi - 1)

RECURSIVE SumSqRange(_, _, _)
SumSqRange(s, lo, hi) ==
    IF lo > hi THEN 0 ELSE s[hi + 1] * s[hi + 1] + SumSqRange(s, lo, hi - 1)

\* A rolling window of w samples over positions lo..lo+w-1 of s has a value
\* when it lies inside the series and holds no NaN (min_periods = window).
WindowFull(s, lo, w) ==
    /\ lo >= 0 /\ lo + w - 1 <= Len(s) - 1
    /\ \A q \in lo..(lo + w - 1) : s[q + 1] # NaN

\* Mean of the window starting at lo: sum / n.
WindowMean(s, lo, w) ==
    IF WindowFull(s, lo, w)
    THEN [nan |-> FALSE, sum |-> SumRange(s, lo, lo + w - 1), n |-> w]
    ELSE [nan |-> TRUE, sum |-> 0, n |-> w]

\* Sample standard deviation (ddof = 1) of the window starting at lo:
\* sqrt(q / (n * (n - 1))) with q = n * sum(x^2) - sum(x)^2; NaN for n = 1.
WindowStd(s, lo, w) ==
    IF WindowFull(s, lo, w) /\ w > 1
    THEN [nan |-> FALSE,
          q |-> w * SumSqRange(s, lo, lo + w - 1)
                - SumRange(s, lo, lo + w - 1) * SumRange(s, lo, lo + w - 1),
          n |-> w]
    ELSE [nan |-> TRUE, q |-> 0, n |-> w]

LeadingStart(p, w) == p

\* Lines 26-27: rolling(window=window) is the trailing window p-w+1..p.
PrecedingStart(p, w) == p - w

TrailingStart(p, w) == p - w + 1

\* Lines 26-27: series.rolling(window).mean() / .std() at position p.
MovingAvg(s, p, w) == WindowMean(s, TrailingStart(p, w), w)

MovingStd(s, p, w) == WindowStd(s, TrailingStart(p, w), w)

\* a > cv * sqrt(x) for integers a, cv and x >= 0.
GtScaledRoot(a, cv, x) ==
    IF cv >= 0
    THEN a > 0 /\ a * a > cv * cv * x
    ELSE a > 0 \/ (a = 0 /\ x > 0) \/ (a < 0 /\ a * a < cv * cv * x)

ExceedsNaNTrue(v, m, sd, cv) ==
    IF v = NaN \/ m.nan \/ sd.nan THEN TRUE
    ELSE GtScaledRoot((m.n * v - m.sum) * (m.n - 1), cv, sd.q * m.n * (m.n - 1))

\* Line 29: v > m + cv * sd, False when any of the three is NaN.  With
\* a = n*v - sum the comparison is a / n > cv * sqrt(q / (n * (n - 1))), that is
\* a * (n - 1) > cv * sqrt(q * n * (n - 1)).
Exceeds(v, m, sd, cv) ==
    IF v = NaN \/ m.nan \/ sd.nan THEN FALSE
    ELSE GtScaledRoot((m.n * v - m.sum) * (m.n - 1), cv, sd.q * m.n * (m.n - 1))

IsEvent(s, w, cv) ==
    [ j \in 1..Len(s) |-> Exceeds(s[j], MovingAvg(s, j - 1, w), MovingStd(s, j - 1, w), cv) ]

EventValues == {0, 5, 20, NaN}
EventWindows == {1, 2, 3}
EventCriticalValues == {-1, 0, 1, 2}

InitEvents ==
    /\ fn = "find_events"
    /\ pc = "start"
    /\ series \in SeqsUpTo(EventValues, MaxLen)
    /\ window \in EventWindows
    /\ critical_value \in EventCriticalValues
    /\ i = 0
    /\ result = None
    /\ error = ""
    /\ IdleEvents /\ IdleOnset /\ IdleMask /\ IdleNoise /\ IdleSplit

\* Lines 26-34: the rolling statistics, the event condition, the scan state.
EventsRolling ==
    /\ fn = "find_events"
    /\ pc = "start"
    /\ is_event' = IsEvent(series, window, critical_value)
    /\ events' = << >>
    /\ in_event' = FALSE
    /\ event_start' = None
    /\ i' = 0
    /\ pc' = "scan"
    /\ UNCHANGED << fn, series, window, critical_value, result, error, otherThanEvents >>

RunEndAtFalse(idx) == idx

\* Line 45: a run is closed at the label before the first non-event sample.
RunEnd(idx) == idx - 1

\* Lines 36-47: one iteration of the scan, at position i.
EventsStep ==
    /\ fn = "find_events"
    /\ pc = "scan"
    /\ i < Len(series)
    /\ IF is_event[i + 1]
       THEN /\ event_start' = IF in_event THEN event_start ELSE Some(i)
            /\ in_event' = TRUE
            /\ UNCHANGED events
       ELSE /\ events' = IF in_event
                         THEN Append(events, << Value(event_start), RunEnd(i) >>)
                         ELSE events
            /\ in_event' = FALSE
            /\ UNCHANGED event_start
    /\ i' = i + 1
    /\ UNCHANGED << fn, pc, series, window, critical_value, result, error, is_event,
                    otherThanEvents >>

\* Lines 49-53: a run that reaches the last sample is closed at the last label.
EventsReturn ==
    /\ fn = "find_events"
    /\ pc = "scan"
    /\ i >= Len(series)
    /\ events' = IF in_event
                 THEN Append(events, << Value(event_start), Len(series) - 1 >>)
                 ELSE events
    /\ result' = Some(events')
    /\ pc' = "done"
    /\ UNCHANGED << fn, series, window, critical_value, i, error, is_event, in_event,
                    event_start, otherThanEvents >>

NextEvents == EventsRolling \/ EventsStep \/ EventsReturn

SpecEvents == InitEvents /\ [][NextEvents]_vars

\* --------------------------------------------------- find_events: claims
\* The positions inside some returned (start, end) pair, both ends included.
InsideEvent(p) == \E j \in 1..Len(events) : events[j][1] <= p /\ p <= events[j][2]

\* C6: none of the first window-1 samples (positions 0 .. window-2) lies in an
\* interval find_events has built or returns.
C6_WarmUpNeverFlagged ==
    (fn = "find_events" /\ pc \in {"scan", "done"}) =>
        /\ \A p \in 0..(window - 2) : ~InsideEvent(p)
        /\ (in_event /\ pc = "scan") => Value(event_start) >= window - 1
        /\ pc = "done" => result = Some(events)

C6_Witness ==
    /\ fn = "find_events" /\ pc = "done"
    /\ window = 3 /\ Len(series) >= 4
    /\ series[1] > series[2] /\ series[2] # NaN
    /\ Len(events) >= 1 /\ events[1][1] = 2

\* A position whose sample, rolling mean or rolling standard deviation is
\* undefined: the sample is NaN, the trailing window reaches before the series
\* or holds a NaN, or the window has a single sample (no deviation).
Undefined(p) ==
    \/ series[p + 1] = NaN
    \/ p < window - 1
    \/ \E q \in Max(0, p - window + 1)..p : series[q + 1] = NaN
    \/ window = 1

\* C7: every position whose sample, rolling mean or rolling standard deviation
\* is undefined is classified "not an event" and lies in no interval, and the
\* call raises nothing, wherever the position is.
C7_NaNIsNotAnEvent ==
    (fn = "find_events" /\ pc \in {"scan", "done"}) =>
        /\ error = ""
        /\ \A p \in 0..(Len(series) - 1) :
              Undefined(p) => (~is_event[p + 1] /\ ~InsideEvent(p))

C7_Witness ==
    /\ fn = "find_events" /\ pc = "done" /\ window = 2
    /\ Len(events) >= 1
    /\ \E p \in 2..(Len(series) - 1) : series[p + 1] = NaN /\ InsideEvent(p - 1)

\* The maximal runs of consecutive positions at which the event condition
\* holds, as closed pairs of positions.
MaximalRuns(cond) ==
    { r \in (0..(Len(cond) - 1)) \X (0..(Len(cond) - 1)) :
        /\ r[1] <= r[2]
        /\ \A p \in r[1]..r[2] : cond[p + 1]
        /\ (r[1] = 0 \/ ~cond[r[1]])
        /\ (r[2] = Len(cond) - 1 \/ ~cond[r[2] + 2]) }

\* C13: find_events returns, in ascending order, exactly one closed pair
\* (first position, last position) per maximal run of samples satisfying the
\* event condition; consecutive pairs are separated by at least one non-event
\* sample and start <= end holds for each.
C13_OnePairPerMaximalRun ==
    (fn = "find_events" /\ pc = "done") =>
        LET runs == MaximalRuns(IsEvent(series, window, critical_value))
            ev == Value(result)
        IN  /\ { ev[j] : j \in 1..Len(ev) } = runs
            /\ Len(ev) = Cardinality(runs)
            /\ \A j \in 1..Len(ev) : ev[j][1] <= ev[j][2]
            /\ \A j \in 1..(Len(ev) - 1) : ev[j][2] + 1 < ev[j + 1][1]

C13_Witness ==
    /\ fn = "find_events" /\ pc = "done"
    /\ Len(Value(result)) = 2
    /\ Value(result)[1][2] + 2 = Value(result)[2][1]
    /\ Value(result)[2][2] = Len(series) - 1

\* C14 (as stated): for every event condition of length n >= 1 the pairs
\* find_events reports equal the pairs intervals_from_mask returns for that
\* condition taken as a mask: same number, same starts, same ends.
C14_SameScanSameEnds ==
    (fn = "find_events" /\ pc = "done" /\ Len(series) >= 1) =>
        Value(result) = IntervalsFromMask(is_event)

\* C14 (amended): the two scans find the same runs, with the same number of
\* pairs and the same start positions, but the end intervals_from_mask returns
\* is one greater than the end find_events reports.
C14_SameRunsEndsOneApart ==
    (fn = "find_events" /\ pc = "done" /\ Len(series) >= 1) =>
        LET ev == Value(result)
            iv == IntervalsFromMask(is_event)
        IN  /\ Len(ev) = Len(iv)
            /\ \A j \in 1..Len(ev) :
                  /\ ev[j][1] = iv[j][1]
                  /\ ev[j][2] + 1 = iv[j][2]

C14_Witness ==
    /\ fn = "find_events" /\ pc = "done"
    /\ Len(series) = 4
    /\ Value(result) = << << 1, 2 >> >>
    /\ IntervalsFromMask(is_event) = << << 1, 3 >> >>

\* C19: the trailing window holds the sample under test, so the sample is at
\* most (window - 1) / sqrt(window) sample standard deviations above the
\* window's mean: with sum and q = n * sum(x^2) - sum(x)^2 of the window,
\* (n * v - sum)^2 <= (n - 1) * q.  For window 1 or 2 and critical_value >= 1
\* no sample is an event and the returned list is empty.
C19_SelfBaselineBound ==
    (fn = "find_events" /\ pc \in {"scan", "done"}) =>
        /\ \A p \in 0..(Len(series) - 1) :
              LET m == MovingAvg(series, p, window)
                  sd == MovingStd(series, p, window)
                  v == series[p + 1]
              IN  /\ (v # NaN /\ ~m.nan /\ ~sd.nan) =>
                        (m.n * v - m.sum) * (m.n * v - m.sum) <= (m.n - 1) * sd.q
                  /\ (window \in {1, 2} /\ critical_value >= 1) => ~is_event[p + 1]
        /\ (pc = "done" /\ window \in {1, 2} /\ critical_value >= 1) =>
              Value(result) = << >>

C19_Witness ==
    /\ fn = "find_events" /\ pc = "done"
    /\ window = 2 /\ critical_value = 1
    /\ series = << 0, 20, 0, 20 >>
    /\ Value(result) = << >>

\* ------------------------------------------------------------ noise_mask
MaxOffsets == 2
Offsets == {0, 1, 2}
NoiseValues == {0, 5, 20}
NoiseWindows == {1, 2, 3}
FullIntervals == {None, Some(<< 0, 1 >>), Some(<< 1, 3 >>)}

InIntervalHalfOpen(t, iv) == iv[1] <= t /\ t < iv[2]

\* Line 79: (df['time'] >= start) & (df['time'] <= end).
InInterval(t, iv) == iv[1] <= t /\ t <= iv[2]

\* Line 79: the positions of the rows with start <= time <= end, ascending.
RECURSIVE RowsWithin(_, _, _)
RowsWithin(t, iv, n) ==
    IF n = 0 THEN << >>
    ELSE IF InInterval(t[n], iv)
    THEN Append(RowsWithin(t, iv, n - 1), n)
    ELSE RowsWithin(t, iv, n - 1)

\* Lines 77-79: the frame restricted to full_interval, or the frame itself.
Restrict(v, t, fi) ==
    IF fi = None THEN [value |-> v, time |-> t]
    ELSE LET rows == RowsWithin(t, Value(fi), Len(t))
         IN  [value |-> [ j \in 1..Len(rows) |-> v[rows[j]] ],
              time  |-> [ j \in 1..Len(rows) |-> t[rows[j]] ]]

\* Lines 81-82: rolling(window, center=True) at position p is the window of w
\* samples starting at p - w // 2.
CentredStart(p, w) == p - (w \div 2)

RollingMean(s, w) == [ j \in 1..Len(s) |-> WindowMean(s, CentredStart(j - 1, w), w) ]

RollingStd(s, w) == [ j \in 1..Len(s) |-> WindowStd(s, CentredStart(j - 1, w), w) ]

DivisionRaisesOnZero(sd) == ~sd.nan /\ sd.q = 0

\* Lines 89-90: the operands are numpy float64 scalars, whose division by zero
\* gives nan or inf (with a RuntimeWarning) and raises nothing.
DivisionRaises(sd) == FALSE

ZLimit == 3

ZAtMostLimit(mi, mj, sd) ==
    /\ ~mi.nan /\ ~mj.nan /\ ~sd.nan
    /\ sd.q > 0
    /\ ((mi.sum - mj.sum) * (sd.n - 1)) * ((mi.sum - mj.sum) * (sd.n - 1))
           <= ZLimit * ZLimit * sd.q * sd.n * (sd.n - 1)

ZUndefinedAccepted(mi, mj, sd) ==
    \/ mi.nan \/ mj.nan \/ sd.nan
    \/ (sd.q = 0 /\ mi.sum = mj.sum)
    \/ /\ sd.q > 0
       /\ ((mi.sum - mj.sum) * (sd.n - 1)) * ((mi.sum - mj.sum) * (sd.n - 1))
              < ZLimit * ZLimit * sd.q * sd.n * (sd.n - 1)

\* Lines 89-91: |(mi - mj) / sd| < 3.  A NaN operand, 0/0 (NaN) and x/0 (inf)
\* compare False.  Otherwise with d = sum_i - sum_j the test is
\* |d| / n < 3 * sqrt(q / (n * (n - 1))), that is
\* (d * (n - 1))^2 < 9 * q * n * (n - 1).
ZBelowLimit(mi, mj, sd) ==
    /\ ~mi.nan /\ ~mj.nan /\ ~sd.nan
    /\ sd.q > 0
    /\ ((mi.sum - mj.sum) * (sd.n - 1)) * ((mi.sum - mj.sum) * (sd.n - 1))
           < ZLimit * ZLimit * sd.q * sd.n * (sd.n - 1)

NoiseAtEdgeRejected(rm, rs, off, p) ==
    /\ off <= p /\ p < Len(rm) - off
    /\ ZBelowLimit(rm[p + 1], rm[p + off + 1], rs[p + off + 1])
    /\ ZBelowLimit(rm[p + 1], rm[p - off + 1], rs[p - off + 1])

\* A series on which one backward z-score is exactly 3: with a window of 3
\* and an offset of 1, position 2 has mean 20 and position 1 has mean 5 and
\* standard deviation 5.
ExactLimitSeries == << 0, 5, 10, 45, 5 >>

\* Lines 86-91 for one offset: positions outside range(offset, n - offset)
\* keep their zero z-scores, which are below the limit.
NoiseAt(rm, rs, off, p) ==
    IF off <= p /\ p < Len(rm) - off
    THEN /\ ZBelowLimit(rm[p + 1], rm[p + off + 1], rs[p + off + 1])
         /\ ZBelowLimit(rm[p + 1], rm[p - off + 1], rs[p - off + 1])
    ELSE TRUE

InitNoise ==
    /\ fn = "noise_mask"
    /\ pc = "start"
    /\ series \in SeqsUpTo(NoiseValues, MaxLen) \cup { ExactLimitSeries }
    /\ time = [ j \in 1..Len(series) |-> j - 1 ]
    /\ window \in NoiseWindows
    /\ offsets \in SeqsUpTo(Offsets, MaxOffsets)
    /\ full_interval \in FullIntervals
    /\ rolling_mean = << >>
    /\ rolling_std = << >>
    /\ df = [value |-> series, time |-> time]
    /\ mask = << >>
    /\ starts = << >> /\ ends = << >>
    /\ critical_value = 0
    /\ i = 0
    /\ result = None
    /\ error = ""
    /\ IdleOnset /\ IdleEvents /\ IdleSplit

\* Lines 77-84: the restriction to full_interval, the rolling statistics and
\* the all-True mask.
NoiseRolling ==
    /\ fn = "noise_mask"
    /\ pc = "start"
    /\ df' = Restrict(series, time, full_interval)
    /\ rolling_mean' = RollingMean(df'.value, window)
    /\ rolling_std' = RollingStd(df'.value, window)
    /\ mask' = [ j \in 1..Len(df'.value) |-> TRUE ]
    /\ i' = 0
    /\ pc' = "offsets"
    /\ UNCHANGED << fn, series, time, window, critical_value, result, error,
                    offsets, full_interval, otherThanNoise >>

\* Lines 85-92: one offset of the list, at index i of offsets.
NoiseOffset ==
    /\ fn = "noise_mask"
    /\ pc = "offsets"
    /\ i < Len(offsets)
    /\ LET off == offsets[i + 1]
           n == Len(df.value)
       IN  IF \E p \in off..(n - off - 1) :
                 DivisionRaises(rolling_std[p + off + 1]) \/ DivisionRaises(rolling_std[p - off + 1])
           THEN /\ pc' = "error"
                /\ error' = "ZeroDivisionError"
                /\ UNCHANGED << mask, i >>
           ELSE /\ mask' = [ j \in 1..Len(mask) |->
                               mask[j] /\ NoiseAt(rolling_mean, rolling_std, off, j - 1) ]
                /\ i' = i + 1
                /\ UNCHANGED << pc, error >>
    /\ UNCHANGED << fn, series, time, window, critical_value, result,
                    offsets, full_interval, rolling_mean, rolling_std, df, otherThanNoise >>

\* Line 95.
NoiseReturn ==
    /\ fn = "noise_mask"
    /\ pc = "offsets"
    /\ i >= Len(offsets)
    /\ result' = Some(mask)
    /\ pc' = "done"
    /\ UNCHANGED << fn, series, time, window, critical_value, i, error, mask,
                    noiseVars, otherThanNoise >>

NextNoise == NoiseRolling \/ NoiseOffset \/ NoiseReturn

SpecNoise == InitNoise /\ [][NextNoise]_vars

\* ---------------------------------------------------- noise_mask: claims
Flat(s) == \A a, b \in 1..Len(s) : s[a] = s[b]

\* C8: on a flat constant series (rolling standard deviation 0 wherever it is
\* defined) the call raises nothing, for every rolling_window and every list
\* of offsets, and the mask it builds and returns has one boolean per sample
\* processed (per sample of the series when no full_interval is given).
C8_FlatSeriesCompletes ==
    (fn = "noise_mask" /\ Flat(series) /\ pc # "start") =>
        /\ pc # "error" /\ error = ""
        /\ \A j \in 1..Len(rolling_std) : rolling_std[j].nan \/ rolling_std[j].q = 0
        /\ Len(mask) = Len(df.value)
        /\ full_interval = None => Len(mask) = Len(series)
        /\ \A j \in 1..Len(mask) : mask[j] \in BOOLEAN
        /\ pc = "done" => result = Some(mask)

C8_Witness ==
    /\ fn = "noise_mask" /\ pc = "done" /\ Flat(series)
    /\ Len(series) >= 4 /\ full_interval = None /\ window = 2
    /\ Len(offsets) = 2 /\ offsets[1] = 1
    /\ ~rolling_std[2].nan /\ rolling_std[3].q = 0
    /\ ~mask[2] /\ mask[1]

\* The absolute value of the quotient (mi - mj) / sd set against 3: "below",
\* "exact" or "above" for a finite quotient, "undefined" for a missing
\* operand or a zero divisor.
ZAgainstThree(mi, mj, sd) ==
    IF mi.nan \/ mj.nan \/ sd.nan \/ sd.q = 0 THEN "undefined"
    ELSE LET lhs == (mi.sum - mj.sum) * (mi.sum - mj.sum) * (sd.n - 1)
             rhs == 9 * sd.q * sd.n
         IN  IF lhs < rhs THEN "below" ELSE IF lhs = rhs THEN "exact" ELSE "above"

\* The z-score recorded at position p for one offset against position q
\* (p + offset forward, p - offset backward): positions outside
\* [offset, n - offset) keep the zero they were initialised with.
RecordedZ(p, off, q) ==
    IF off <= p /\ p < Len(rolling_mean) - off
    THEN ZAgainstThree(rolling_mean[p + 1], rolling_mean[q + 1], rolling_std[q + 1])
    ELSE "below"

\* C15: the returned mask is true at a position if and only if, for every
\* offset, both the forward and the backward z-score recorded there are
\* strictly below 3 in absolute value; a z-score of exactly 3 rejects.
C15_AcceptedIffAllStrictlyBelow ==
    (fn = "noise_mask" /\ pc = "done") =>
        \A p \in 0..(Len(Value(result)) - 1) :
            Value(result)[p + 1] <=>
                \A j \in 1..Len(offsets) :
                    /\ RecordedZ(p, offsets[j], p + offsets[j]) = "below"
                    /\ RecordedZ(p, offsets[j], p - offsets[j]) = "below"

C15_Witness ==
    /\ fn = "noise_mask" /\ pc = "done"
    /\ series = ExactLimitSeries /\ window = 3 /\ full_interval = None
    /\ offsets = << 0, 1 >>
    /\ RecordedZ(2, 0, 2) = "below"
    /\ RecordedZ(2, 1, 3) = "below"
    /\ RecordedZ(2, 1, 1) = "exact"
    /\ ~Value(result)[3]

\* The offsets whose range [offset, n - offset) holds position p.
CoveringOffsets(p, n) ==
    { j \in 1..Len(offsets) : offsets[j] <= p /\ p < n - offsets[j] }

\* C16: a position outside [offset, n - offset) is accepted for that offset:
\* after any number of offsets, a position none of them covers is still true;
\* so with an empty offsets list, or every offset >= n / 2, the returned mask
\* is true at every position.
C16_EdgePositionsAccepted ==
    (fn = "noise_mask" /\ pc \in {"offsets", "done"}) =>
        LET n == Len(df.value) IN
        /\ Len(mask) = n
        /\ \A p \in 0..(n - 1) :
              (\A j \in CoveringOffsets(p, n) : j > i) => mask[p + 1]
        /\ (pc = "done" /\ \A j \in 1..Len(offsets) : 2 * offsets[j] >= n) =>
              \A p \in 0..(n - 1) : Value(result)[p + 1]

C16_Witness ==
    /\ fn = "noise_mask" /\ pc = "done"
    /\ Len(df.value) = 4 /\ window = 2
    /\ offsets = << 1, 2 >>
    /\ Value(result) = << TRUE, FALSE, FALSE, TRUE >>

C20_UndefinedRejectedInsideRange ==
    (fn = "noise_mask" /\ pc = "done") =>
        LET n == Len(df.value) IN
        /\ \A p \in 0..(n - 1) : \A j \in CoveringOffsets(p, n) :
              (\/ RecordedZ(p, offsets[j], p + offsets[j]) = "undefined"
               \/ RecordedZ(p, offsets[j], p - offsets[j]) = "undefined")
                  => ~Value(result)[p + 1]
        /\ Flat(df.value) =>
              \A p \in 0..(n - 1) :
                  Value(result)[p + 1] <=> CoveringOffsets(p, n) = {}

C20_Witness ==
    /\ fn = "noise_mask" /\ pc = "done"
    /\ Flat(series) /\ Len(series) = 4 /\ full_interval = None
    /\ window = 3 /\ offsets = << 1 >>
    /\ rolling_mean[1].nan /\ rolling_std[2].q = 0
    /\ Value(result) = << TRUE, FALSE, FALSE, TRUE >>

\* ------------------------------------ background-relative anomaly detector
\* autosplit_gauss_mask / autosplit_poisson_mask: radem/events/__init__.py
\* imports them from .background, whose definitions of them are not part of
\* the sources at hand; the model follows section 4.3 of the specification.
SplitValues == {10, 40}
SplitWindows == {1, 2, 3}
Thresholds == {1, 3}
BackgroundMeans == {0, 10}
BackgroundStds == {0, 1, 5}

\* |z_score| > threshold for the window of ws samples starting at position p,
\* with wsum the sum of its samples (window mean = wsum / ws).
\*   gaussian: |wsum / ws - mean| > thr * std
\*   poisson:  |wsum / ws - rate| > thr * sqrt(rate / ws), rate = mean
ZExceeds(mdl, bg, thr, s, p, ws) ==
    LET d == SumRange(s, p, p + ws - 1) - ws * bg.mean
    IN  IF mdl = "gaussian"
        THEN Abs(d) > thr * bg.std * ws
        ELSE d * d > thr * thr * bg.mean * ws

DegenerateBackground(mdl, bg) ==
    IF mdl = "gaussian" THEN bg.std = 0 ELSE bg.mean = 0

MarkPoint(m, p, ws) == [ j \in 1..Len(m) |-> m[j] \/ j - 1 = p ]

\* The whole window [p, p + ws) is marked.
MarkWindow(m, p, ws) == [ j \in 1..Len(m) |-> m[j] \/ (p <= j - 1 /\ j - 1 < p + ws) ]

InitSplit ==
    /\ fn = "autosplit_mask"
    /\ pc = "start"
    /\ series \in SeqsUpTo(SplitValues, MaxLen)
    /\ window \in SplitWindows
    /\ threshold \in Thresholds
    /\ model \in {"gaussian", "poisson"}
    /\ background \in [mean : BackgroundMeans, std : BackgroundStds]
    /\ mask = << >>
    /\ time = << >> /\ starts = << >> /\ ends = << >>
    /\ critical_value = 0
    /\ i = 0
    /\ result = None
    /\ error = ""
    /\ IdleOnset /\ IdleEvents /\ IdleNoise

\* The background statistics are checked and the mask starts all False.
SplitSetup ==
    /\ fn = "autosplit_mask"
    /\ pc = "start"
    /\ IF DegenerateBackground(model, background)
       THEN /\ pc' = "error"
            /\ error' = "DegenerateBackground"
            /\ UNCHANGED mask
       ELSE /\ mask' = [ j \in 1..Len(series) |-> FALSE ]
            /\ pc' = "scan"
            /\ UNCHANGED error
    /\ UNCHANGED << fn, series, window, critical_value, i, result, splitVars,
                    otherThanSplit >>

\* One window start i in [0, len(signal) - window_size].
SplitStep ==
    /\ fn = "autosplit_mask"
    /\ pc = "scan"
    /\ i <= Len(series) - window
    /\ mask' = IF ZExceeds(model, background, threshold, series, i, window)
               THEN MarkWindow(mask, i, window)
               ELSE mask
    /\ i' = i + 1
    /\ UNCHANGED << fn, pc, series, window, critical_value, result, error, splitVars,
                    otherThanSplit >>

SplitReturn ==
    /\ fn = "autosplit_mask"
    /\ pc = "scan"
    /\ i > Len(series) - window
    /\ result' = Some(mask)
    /\ pc' = "done"
    /\ UNCHANGED << fn, series, window, critical_value, i, error, mask, splitVars,
                    otherThanSplit >>

NextSplit == SplitSetup \/ SplitStep \/ SplitReturn

SpecSplit == InitSplit /\ [][NextSplit]_vars

\* -------------------------------------------- anomaly detector: claims
\* The window starting at position p is anomalous: |z_score| > threshold.
AnomalousWindow(p) == ZExceeds(model, background, threshold, series, p, window)

\* C9: once the window starts 0 .. i-1 are processed (all of
\* [0, len(signal) - window_size] when the call is done), a position is marked
\* in the mask exactly when it lies in [s, s + window_size) for a processed
\* window start s whose |z_score| exceeds the threshold.
C9_WholeWindowMarked ==
    (fn = "autosplit_mask" /\ pc \in {"scan", "done"}) =>
        /\ Len(mask) = Len(series)
        /\ \A p \in 0..(Len(series) - 1) :
              mask[p + 1] <=>
                  \E s \in 0..(i - 1) : AnomalousWindow(s) /\ s <= p /\ p < s + window
        /\ pc = "done" => (i = Max(0, Len(series) - window + 1) /\ result = Some(mask))

C9_Witness ==
    /\ fn = "autosplit_mask" /\ pc = "done" /\ window = 3 /\ Len(series) >= 4
    /\ AnomalousWindow(1) /\ ~AnomalousWindow(0)
    /\ ~mask[1] /\ mask[2] /\ mask[3] /\ mask[4]

====
